---- MODULE Spec2Model ----
(***************************************************************************)
(* priority-checker: a single pass over the transactions of one block that *)
(* records, per account, the kind and priority of the last access and      *)
(* reports every access made with a higher priority than the access before *)
(* it (src/src/main.rs).                                                    *)
(***************************************************************************)
EXTENDS Integers, Sequences, FiniteSets, TLC

\* ------------------------------------------------------------------ bounds
\* Transactions in the fetched block.
MaxTxs == 3
\* Lengths of a transaction's loaded address lists.
MaxWritable == 1
MaxReadonly == 2
\* Largest compute unit price carried by a directive.
MaxPrice == 1
\* Instructions in a list handed to get_priority on its own, and the largest
\* unit count and additional fee of a deprecated directive in it.
MaxIx == 2
MaxUnits == 3
MaxFee == 2

\* ------------------------------------------------------- program constants
MICRO_LAMPORTS_PER_LAMPORT == 1000000

\* --------------------------------------------------------------- 64-bit words
\* TLC evaluates 32-bit integers only, so the widths are stated by division:
\* q fits u64 iff floor(q / 2^64) = 0, and likewise for u128.
Shr64(n) == (((n \div 65536) \div 65536) \div 65536) \div 65536
FitsU64(n) == n >= 0 /\ Shr64(n) = 0
FitsU128(n) == n >= 0 /\ Shr64(Shr64(n)) = 0

\* Option and Result values: None is the empty sequence and Some(v) the
\* sequence of v alone; a Result carries its side in a tag.
None == <<>>
Some(v) == <<v>>
unwrap(o) == o[1]
Ok(v) == [ok |-> TRUE, value |-> v]
Err == [ok |-> FALSE, value |-> 0]

\* u128::saturating_mul
saturating_mul(a, b) == IF FitsU128(a * b) THEN a * b ELSE (2^128) - 1

\* Mutant: a zero divisor gives a zero quotient.
checked_div_or_zero(a, b) == IF b = 0 THEN Some(0) ELSE Some(a \div b)

\* u128::checked_div: None on a zero divisor
checked_div(a, b) == IF b = 0 THEN None ELSE Some(a \div b)

\* u64::try_from(u128): Err when the value does not fit 64 bits
try_into_u64(q) == IF FitsU64(q) THEN Ok(q) ELSE Err

\* ------------------------------------------------------------- instructions
\* An instruction is (program_id, data). The data is carried as the borsh
\* payload it is: a discriminant byte, the fields, and whether the bytes after
\* the discriminant are enough for the variant's fields.
ComputeBudgetId == "ComputeBudget111111111111111111111111111111"
OtherProgramId == "11111111111111111111111111111111"

Ix(program_id, disc, a, b, complete) ==
    [program_id |-> program_id,
     data |-> [disc |-> disc, a |-> a, b |-> b, complete |-> complete]]

\* compute_budget::check_id
check_id(program_id) == program_id = ComputeBudgetId

\* try_from_slice_unchecked::<ComputeBudgetInstruction>: the variant of the
\* discriminant with its fields, Err for an unknown discriminant or a payload
\* too short for the variant.
try_from_slice_unchecked(data) ==
    IF ~data.complete THEN [tag |-> "Err"]
    ELSE CASE data.disc = 0 ->
                [tag |-> "RequestUnitsDeprecated", units |-> data.a, additional_fee |-> data.b]
           [] data.disc = 1 -> [tag |-> "RequestHeapFrame", bytes |-> data.a]
           [] data.disc = 2 -> [tag |-> "SetComputeUnitLimit", units |-> data.a]
           [] data.disc = 3 -> [tag |-> "SetComputeUnitPrice", price |-> data.a]
           [] OTHER -> [tag |-> "Err"]

\* The arithmetic of the RequestUnitsDeprecated arm; Err is the exit(1) of
\* either unwrap_or_else.
DeprecatedPriority(units, additional_fee) ==
    LET q == checked_div(saturating_mul(additional_fee, MICRO_LAMPORTS_PER_LAMPORT), units)
    IN  IF q = None THEN Err ELSE try_into_u64(unwrap(q))

\* Mutant: the scan goes on to the end, so the last recognized directive decides.
RECURSIVE get_priority_last(_)
get_priority_last(instructions) ==
    IF instructions = <<>> THEN Ok(0)
    ELSE LET ix == instructions[Len(instructions)]
             decoded == try_from_slice_unchecked(ix.data)
         IN  IF check_id(ix.program_id) /\ decoded.tag = "RequestUnitsDeprecated"
               THEN DeprecatedPriority(decoded.units, decoded.additional_fee)
             ELSE IF check_id(ix.program_id) /\ decoded.tag = "SetComputeUnitPrice"
               THEN Ok(decoded.price)
             ELSE get_priority_last(SubSeq(instructions, 1, Len(instructions) - 1))

\* get_priority: the first recognized directive decides; 0 when there is none.
\* The result is Ok(priority), or Err when the function exits the process.
RECURSIVE get_priority(_)
get_priority(instructions) ==
    IF instructions = <<>> THEN Ok(0)
    ELSE LET ix == Head(instructions)
             decoded == try_from_slice_unchecked(ix.data)
         IN  IF check_id(ix.program_id) /\ decoded.tag = "RequestUnitsDeprecated"
               THEN DeprecatedPriority(decoded.units, decoded.additional_fee)
             ELSE IF check_id(ix.program_id) /\ decoded.tag = "SetComputeUnitPrice"
               THEN Ok(decoded.price)
             ELSE get_priority(Tail(instructions))

\* ------------------------------------------------------------------ accounts
\* Loaded addresses arrive as strings; Pubkey::from_str turns a base58 string of
\* a 32-byte key into the key and fails on anything else.
AddressStrings == {"addrA", "addrB", "not-base58"}
ValidAddresses == {"addrA", "addrB"}
Pubkeys == {"PkA", "PkB"}
Pubkey_from_str(k) ==
    CASE k = "addrA" -> [ok |-> TRUE, value |-> "PkA"]
      [] k = "addrB" -> [ok |-> TRUE, value |-> "PkB"]
      [] OTHER -> [ok |-> FALSE, value |-> ""]

\* ------------------------------------------------------------- block inputs
RECURSIVE SeqsUpTo(_, _)
SeqsUpTo(S, n) ==
    IF n = 0 THEN {<<>>}
    ELSE LET shorter == SeqsUpTo(S, n - 1)
         IN  shorter \cup {Append(s, x) : s \in shorter, x \in S}

\* The address lists of at most n strings. The loops parse an address when they
\* come to it and exit at the first that does not parse, so nothing after it is
\* ever read: the lists are taken up to and including such an address.
AddressLists(n) ==
    SeqsUpTo(ValidAddresses, n)
    \cup {Append(s, x) : s \in SeqsUpTo(ValidAddresses, n - 1),
                         x \in AddressStrings \ ValidAddresses}
WritableLists == AddressLists(MaxWritable)
ReadonlyLists == AddressLists(MaxReadonly)

\* The instruction lists of the block's transactions: no directive, a price
\* directive alone, a price directive after instructions get_priority passes
\* over, and the deprecated directive with and without a usable unit count.
SetComputeUnitPrice(price) == Ix(ComputeBudgetId, 3, price, 0, TRUE)
RequestUnitsDeprecated(units, fee) == Ix(ComputeBudgetId, 0, units, fee, TRUE)
InstructionLists ==
    {<<>>}
    \cup {<<SetComputeUnitPrice(p)>> : p \in 1..MaxPrice}
    \cup {<<Ix(OtherProgramId, 3, MaxPrice, 0, TRUE),
            Ix(ComputeBudgetId, 2, 200000, 0, TRUE),
            Ix(ComputeBudgetId, 3, MaxPrice, 0, FALSE),
            SetComputeUnitPrice(1),
            SetComputeUnitPrice(MaxPrice)>>}
    \cup {<<RequestUnitsDeprecated(MICRO_LAMPORTS_PER_LAMPORT, MaxPrice)>>}
    \cup {<<RequestUnitsDeprecated(0, 1)>>}

\* One entry of block.transactions as the RPC returns it: the metadata (or
\* None) with its loaded addresses (or None), and the encoded transaction, which
\* decodes or not and, decoded, sanitizes or not. sig is the first signature,
\* which is unique within a block.
LoadedAddresses == [writable : WritableLists, readonly : ReadonlyLists]
Metas ==
    {None} \cup {Some([loaded_addresses |-> la]) :
                    la \in {None} \cup {Some(l) : l \in LoadedAddresses}}
Encoded(sig) ==
    {[decodes |-> FALSE, sanitizes |-> FALSE, signatures |-> <<sig>>, instructions |-> <<>>],
     [decodes |-> TRUE, sanitizes |-> FALSE, signatures |-> <<sig>>, instructions |-> <<>>]}
    \cup [decodes : {TRUE}, sanitizes : {TRUE}, signatures : {<<sig>>},
          instructions : InstructionLists]
Transactions(sig) == [meta : Metas, transaction : Encoded(sig)]

\* -------------------------------------------------------------------- state
VARIABLES
    pc,                 \* where main is: "start", "next_tx", "write", "read",
                        \*   "end_tx", "report", "exited"; "resolve" and "resolved"
                        \*   around get_priority applied on its own
    display_count_only, \* Cli.display_count_only
    consumed,           \* transactions taken from the block so far
    last_access_map,    \* HashMap<Pubkey, LastAccessPriority>
    violated_accounts,  \* HashMap<Pubkey, Vec<[u64; 2]>>
    violating_transaction_signatures,   \* Vec<Signature>
    is_violation,       \* the flag of the transaction being processed
    signature,          \* its first signature
    priority,           \* its priority
    writable,           \* what is left of addresses.writable.iter()
    readonly,           \* what is left of addresses.readonly.iter()
    stdout,             \* lines printed with println!
    stderr,             \* lines printed with eprintln!
    exit_code,          \* None while running, then Some(code)
    anomaly,            \* history: the anomaly of the input that main met, if any
    last_touch,         \* history: per account, the kind and priority of its latest touch
    nonincreasing,      \* history: accounts whose touches so far never rose in priority
    violators,          \* history: signatures of transactions with a touch that
                        \*   added a violation entry
    touched,            \* history: the latest touch of the transaction in the loop body:
                        \*   its kind, account and priority, the record it met
                        \*   (None for a vacant entry) and the number of violation
                        \*   entries the account had before it
    tx_written,         \* history: accounts the current transaction has written
    tx_touched,         \* history: accounts the current transaction has touched
    tx_start,           \* history: violated_accounts when the current transaction began
    reference,          \* history: for each account, the pairs of consecutive touches
                        \*   (k1, p1), (k2, p2) with p1 < p2 and a write among them
    instructions,       \* the instruction list handed to get_priority on its own
    resolved            \* None, or Some(result) once get_priority has run on it

passVars == <<last_access_map, violated_accounts, violating_transaction_signatures>>
txVars == <<is_violation, signature, priority, writable, readonly>>
outVars == <<stdout, stderr, exit_code>>
histVars == <<last_touch, nonincreasing, violators, touched, tx_written, tx_touched,
              tx_start, reference>>
fnVars == <<instructions, resolved>>
vars == <<pc, display_count_only, consumed, passVars, txVars, outVars, anomaly, histVars, fnVars>>

\* ------------------------------------------------------------- the hash maps
EmptyMap == [k \in {} |-> 0]
contains_key(map, k) == k \in DOMAIN map
insert(map, k, v) == [x \in DOMAIN map \cup {k} |-> IF x = k THEN v ELSE map[x]]

LastAccessPriority(last_access, p) == [last_access |-> last_access, priority |-> p]

\* Mutant: the pair pushed onto the list of every account that has one as well.
push_violation_everywhere(violated, account, pair) ==
    [a \in DOMAIN violated \cup {account} |->
        Append(IF a \in DOMAIN violated THEN violated[a] ELSE <<>>, pair)]

\* violated_accounts.entry(account).or_default().push([old, new])
push_violation(violated, account, pair) ==
    insert(violated, account,
           Append(IF contains_key(violated, account) THEN violated[account] ELSE <<>>, pair))

\* Mutant: the pair pushed with its two priorities swapped.
ViolationPairSwapped(entry, p) == <<p, entry.priority>>

\* The pair pushed for a violation: [entry.get().priority, priority].
ViolationPair(entry, p) == <<entry.priority, p>>

\* Mutant: the writable loop given the test of the readonly loop.
WriteViolatesOnlyAfterWrite(entry, p) ==
    entry.last_access = "Write" /\ entry.priority < p

\* Mutant: the writable loop counting an equal priority as a violation.
WriteViolatesOnEqual(entry, p) == entry.priority <= p

\* The test of the writable loop on an occupied entry.
WriteViolates(entry, p) == entry.priority < p

\* Mutant: the readonly loop given the test of the writable loop.
ReadViolatesAfterAnyAccess(entry, p) == entry.priority < p

\* The test of the readonly loop on an occupied entry.
ReadViolates(entry, p) == entry.last_access = "Write" /\ entry.priority < p

\* Mutant: an occupied entry is left as it was.
OccupiedInsertStale(entry, last_access, p) == entry

\* Mutant: a vacant entry is filled as a write whatever the touch was.
VacantInsertAlwaysWrite(last_access, p) == LastAccessPriority("Write", p)

\* Mutant: an occupied entry takes the kind of the touch and keeps its priority.
OccupiedInsertKeepsPriority(entry, last_access, p) ==
    LastAccessPriority(last_access, entry.priority)

\* Mutant: an entry once written stays a write record.
OccupiedInsertKeepsWrite(entry, last_access, p) ==
    LastAccessPriority(IF entry.last_access = "Write" THEN "Write" ELSE last_access, p)

\* The record left by a touch of an occupied entry, and of a vacant one.
OccupiedInsert(entry, last_access, p) == LastAccessPriority(last_access, p)
VacantInsert(last_access, p) == LastAccessPriority(last_access, p)

\* Mutant: the pair pushed at every touch of an occupied entry.
TouchPushesAlways(kind, map, violated, flag, account, p) ==
    IF contains_key(map, account)
      THEN LET entry == map[account]
               hit == IF kind = "Write" THEN WriteViolates(entry, p) ELSE ReadViolates(entry, p)
           IN  [map |-> insert(map, account, OccupiedInsert(entry, kind, p)),
                violated |-> push_violation(violated, account, ViolationPair(entry, p)),
                flag |-> IF hit THEN TRUE ELSE flag]
      ELSE [map |-> insert(map, account, VacantInsert(kind, p)),
            violated |-> violated,
            flag |-> flag]

\* One iteration of the writable loop (kind "Write") or of the readonly loop
\* (kind "Read") for a parsed account: the maps and the flag after it.
Touch(kind, map, violated, flag, account, p) ==
    IF contains_key(map, account)
      THEN LET entry == map[account]
               hit == IF kind = "Write" THEN WriteViolates(entry, p) ELSE ReadViolates(entry, p)
           IN  [map |-> insert(map, account, OccupiedInsert(entry, kind, p)),
                violated |-> IF hit THEN push_violation(violated, account, ViolationPair(entry, p))
                             ELSE violated,
                flag |-> IF hit THEN TRUE ELSE flag]
      ELSE [map |-> insert(map, account, VacantInsert(kind, p)),
            violated |-> violated,
            flag |-> flag]

\* Mutant: the readonly loop placed before the writable loop.
NextPcReadsFirst(w, r) ==
    IF r # <<>> THEN "read" ELSE IF w # <<>> THEN "write" ELSE "end_tx"

\* Where the body of the transaction loop goes next: the writable loop runs to
\* its end before the readonly loop starts.
NextPc(w, r) ==
    IF w # <<>> THEN "write" ELSE IF r # <<>> THEN "read" ELSE "end_tx"

\* eprintln!(msg); exit(1)
Fatal(msg) ==
    /\ pc' = "exited"
    /\ stderr' = Append(stderr, msg)
    /\ exit_code' = Some(1)
    /\ UNCHANGED stdout

\* Mutant: the flag declared outside the loop, so never reset.
FlagKept(old) == old

\* is_violation at the top of the loop body.
FlagAtLoopTop(old) == FALSE

Init ==
    /\ pc = "start"
    /\ display_count_only \in BOOLEAN
    /\ consumed = 0
    /\ last_access_map = EmptyMap
    /\ violated_accounts = EmptyMap
    /\ violating_transaction_signatures = <<>>
    /\ is_violation = FALSE
    /\ signature = 0
    /\ priority = 0
    /\ writable = <<>>
    /\ readonly = <<>>
    /\ stdout = <<>>
    /\ stderr = <<>>
    /\ exit_code = None
    /\ anomaly = "none"
    /\ last_touch = [a \in Pubkeys |-> None]
    /\ nonincreasing = Pubkeys
    /\ violators = {}
    /\ touched = None
    /\ tx_written = {}
    /\ tx_touched = {}
    /\ tx_start = EmptyMap
    /\ reference = [a \in Pubkeys |-> <<>>]
    /\ instructions = <<>>
    /\ resolved = None

\* The anomaly an input carries, read off the input alone.
Recognized(ix) ==
    /\ ix.program_id = ComputeBudgetId
    /\ ix.data.complete
    /\ ix.data.disc \in {0, 3}
ArithmeticAnomaly(ixs) ==
    \E i \in 1..Len(ixs) :
       /\ \A j \in 1..(i - 1) : ~Recognized(ixs[j])
       /\ Recognized(ixs[i])
       /\ ixs[i].data.disc = 0
       /\ \/ ixs[i].data.a = 0
          \/ ~FitsU64((ixs[i].data.b * MICRO_LAMPORTS_PER_LAMPORT)
                        \div ixs[i].data.a)
AnomalyOf(t) ==
    IF t.meta = None THEN "no_meta"
    ELSE IF unwrap(t.meta).loaded_addresses = None THEN "no_addresses"
    ELSE IF ~t.transaction.decodes THEN "decode"
    ELSE IF ~t.transaction.sanitizes THEN "sanitize"
    ELSE IF ArithmeticAnomaly(t.transaction.instructions) THEN "priority_arithmetic"
    ELSE "none"

\* main up to the transaction loop: the block is fetched and its transaction
\* list unwrapped; either can fail.
Start ==
    /\ pc = "start"
    /\ \E block \in {"Err", "NoTransactions", "Transactions"} :
         /\ anomaly' = CASE block = "Err" -> "retrieval"
                         [] block = "NoTransactions" -> "no_transactions"
                         [] OTHER -> "none"
         /\ IF block = "Err"
              THEN Fatal("Failed to fetch block at slot")
            ELSE IF block = "NoTransactions"
              THEN Fatal("Block does not have transactions, something is misconfigured")
            ELSE /\ pc' = "next_tx"
                 /\ UNCHANGED outVars
    /\ UNCHANGED <<display_count_only, fnVars, consumed, passVars, txVars, histVars>>

\* Mutant: a transaction that fails to sanitize is let through.
RejectedButSanitize(t) ==
    IF t.meta = None
      THEN Some("Transactions do not have metadata, something is misconfigured")
    ELSE IF unwrap(t.meta).loaded_addresses = None
      THEN Some("Transactions do not have loaded addresses, something is misconfigured")
    ELSE IF ~t.transaction.decodes
      THEN Some("Failed to decode transaction")
    ELSE IF ~get_priority(t.transaction.instructions).ok
      THEN Some("Failed to calculate priority")
    ELSE None

\* The checks that let a transaction into the loop body, in the order main makes
\* them: the message of the first that fails, None when all pass.
Rejected(t) ==
    IF t.meta = None
      THEN Some("Transactions do not have metadata, something is misconfigured")
    ELSE IF unwrap(t.meta).loaded_addresses = None
      THEN Some("Transactions do not have loaded addresses, something is misconfigured")
    ELSE IF ~t.transaction.decodes
      THEN Some("Failed to decode transaction")
    ELSE IF ~t.transaction.sanitizes
      THEN Some("Failed to sanitize transaction")
    ELSE IF ~get_priority(t.transaction.instructions).ok
      THEN Some("Failed to calculate priority")
    ELSE None

\* The head of the transaction loop for the next transaction of the block:
\* metadata, loaded addresses, decoding, sanitizing and the priority.
NextTransaction ==
    /\ pc = "next_tx"
    /\ consumed < MaxTxs
    /\ \E t \in Transactions(consumed + 1) :
         /\ anomaly' = AnomalyOf(t)
         /\ consumed' = consumed + 1
         /\ IF Rejected(t) # None
              THEN /\ Fatal(unwrap(Rejected(t)))
                   /\ UNCHANGED txVars
              ELSE LET addresses == unwrap(unwrap(t.meta).loaded_addresses)
                   IN  /\ is_violation' = FlagAtLoopTop(is_violation)
                       /\ signature' = t.transaction.signatures[1]
                       /\ priority' = get_priority(t.transaction.instructions).value
                       /\ writable' = addresses.writable
                       /\ readonly' = addresses.readonly
                       /\ pc' = NextPc(addresses.writable, addresses.readonly)
                       /\ UNCHANGED outVars
         /\ tx_start' = IF Rejected(t) # None THEN tx_start ELSE violated_accounts
    /\ UNCHANGED <<display_count_only, fnVars, passVars, last_touch, nonincreasing, violators,
                   touched, tx_written, tx_touched, reference>>

\* The block has no further transaction.
EndOfBlock ==
    /\ pc = "next_tx"
    /\ pc' = "report"
    /\ UNCHANGED <<display_count_only, fnVars, consumed, passVars, txVars, outVars, anomaly, histVars>>

\* The number of violation entries recorded for an account.
EntryCount(violated, account) ==
    IF contains_key(violated, account) THEN Len(violated[account]) ELSE 0

\* The history kept beside a touch of account by the current transaction.
Remember(kind, account, after) ==
    /\ touched' = Some([kind |-> kind, account |-> account, priority |-> priority,
                        before |-> IF contains_key(last_access_map, account)
                                     THEN Some(last_access_map[account]) ELSE None,
                        entries_before |-> EntryCount(violated_accounts, account),
                        again |-> account \in tx_touched,
                        map_before |-> last_access_map,
                        violated_before |-> violated_accounts])
    /\ tx_written' = IF kind = "Write" THEN tx_written \cup {account} ELSE tx_written
    /\ tx_touched' = tx_touched \cup {account}
    /\ reference' =
         IF /\ last_touch[account] # None
            /\ unwrap(last_touch[account]).priority < priority
            /\ (kind = "Write" \/ unwrap(last_touch[account]).last_access = "Write")
           THEN [reference EXCEPT ![account] =
                    Append(@, <<unwrap(last_touch[account]).priority, priority>>)]
           ELSE reference
    /\ UNCHANGED tx_start
    /\ last_touch' = [last_touch EXCEPT ![account] = Some([last_access |-> kind, priority |-> priority])]
    /\ nonincreasing' =
         IF last_touch[account] # None /\ unwrap(last_touch[account]).priority < priority
           THEN nonincreasing \ {account}
           ELSE nonincreasing
    /\ violators' = IF after.violated # violated_accounts
                      THEN violators \cup {signature} ELSE violators

\* One iteration of the loop over addresses.writable.
WriteTouch ==
    /\ pc = "write"
    /\ writable # <<>>
    /\ LET parsed == Pubkey_from_str(Head(writable))
           after == Touch("Write", last_access_map, violated_accounts, is_violation,
                          parsed.value, priority)
       IN  IF ~parsed.ok
             THEN /\ Fatal("Failed to parse pubkey")
                  /\ anomaly' = "address_parse"
                  /\ UNCHANGED <<passVars, txVars, histVars>>
             ELSE /\ last_access_map' = after.map
                  /\ violated_accounts' = after.violated
                  /\ is_violation' = after.flag
                  /\ writable' = Tail(writable)
                  /\ pc' = NextPc(Tail(writable), readonly)
                  /\ Remember("Write", parsed.value, after)
                  /\ UNCHANGED <<violating_transaction_signatures, signature, priority,
                                 readonly, outVars, anomaly>>
    /\ UNCHANGED <<display_count_only, fnVars, consumed>>

\* One iteration of the loop over addresses.readonly.
ReadTouch ==
    /\ pc = "read"
    /\ readonly # <<>>
    /\ LET parsed == Pubkey_from_str(Head(readonly))
           after == Touch("Read", last_access_map, violated_accounts, is_violation,
                          parsed.value, priority)
       IN  IF ~parsed.ok
             THEN /\ Fatal("Failed to parse pubkey")
                  /\ anomaly' = "address_parse"
                  /\ UNCHANGED <<passVars, txVars, histVars>>
             ELSE /\ last_access_map' = after.map
                  /\ violated_accounts' = after.violated
                  /\ is_violation' = after.flag
                  /\ readonly' = Tail(readonly)
                  /\ pc' = NextPc(writable, Tail(readonly))
                  /\ Remember("Read", parsed.value, after)
                  /\ UNCHANGED <<violating_transaction_signatures, signature, priority,
                                 writable, outVars, anomaly>>
    /\ UNCHANGED <<display_count_only, fnVars, consumed>>

\* Mutant: the signature kept whatever the flag.
PushAlways(sigs, flag, sig) == Append(sigs, sig)

\* The signatures after the end of the loop body.
PushIfViolation(sigs, flag, sig) == IF flag THEN Append(sigs, sig) ELSE sigs

\* The end of the loop body: the signature of a violating transaction is kept.
EndTransaction ==
    /\ pc = "end_tx"
    /\ violating_transaction_signatures' =
         PushIfViolation(violating_transaction_signatures, is_violation, signature)
    /\ pc' = "next_tx"
    /\ touched' = None
    /\ tx_written' = {}
    /\ tx_touched' = {}
    /\ tx_start' = EmptyMap
    /\ UNCHANGED <<display_count_only, fnVars, consumed, last_access_map, violated_accounts,
                   txVars, outVars, anomaly, last_touch, nonincreasing, violators,
                   reference>>

\* -------------------------------------------------------------------- report
Line(text, args) == [text |-> text, args |-> args]

\* The violation entries of all accounts together.
RECURSIVE EntriesOf(_, _)
EntriesOf(violated, keys) ==
    IF keys = {} THEN 0
    ELSE LET k == CHOOSE x \in keys : TRUE
         IN  Len(violated[k]) + EntriesOf(violated, keys \ {k})
TotalEntries(violated) == EntriesOf(violated, DOMAIN violated)

\* Mutant: the count taken over the violation entries.
ReportedEntryCount(sigs, violated) == TotalEntries(violated)

\* The count main prints, alone with -c and in the header otherwise.
ReportedCount(sigs, violated) == Len(sigs)

\* The lines of one account of the report.
AccountBlock(account, violations) ==
    <<Line("Account: {}", <<account>>)>>
    \o [i \in 1..Len(violations) |-> Line("  {} -> {}", violations[i])]

RECURSIVE AccountBlocks(_, _)
AccountBlocks(order, violated) ==
    IF order = <<>> THEN <<>>
    ELSE AccountBlock(Head(order), violated[Head(order)])
         \o AccountBlocks(Tail(order), violated)

\* The orders in which a HashMap with these keys can be iterated.
IterationOrders(keys) ==
    {order \in [1..Cardinality(keys) -> keys] :
        \A i, j \in 1..Cardinality(keys) : order[i] = order[j] => i = j}

\* Mutant: the test for no violated account placed before the test for -c.
ReportLinesEmptyFirst(count_only, sigs, violated, order) ==
    IF DOMAIN violated = {}
      THEN <<Line("No priority violations found", <<>>)>>
    ELSE IF count_only
      THEN <<Line("{}", <<ReportedCount(sigs, violated)>>)>>
    ELSE <<Line("{} priority violations found on {} accounts:",
                <<ReportedCount(sigs, violated), Cardinality(DOMAIN violated)>>)>>
         \o AccountBlocks(order, violated)
         \o <<Line("Violating transactions:", <<>>)>>
         \o [i \in 1..Len(sigs) |-> Line("{}", <<sigs[i]>>)]

\* What main prints after the loop, the accounts taken in the given order.
ReportLines(count_only, sigs, violated, order) ==
    IF count_only
      THEN <<Line("{}", <<ReportedCount(sigs, violated)>>)>>
    ELSE IF DOMAIN violated = {}
      THEN <<Line("No priority violations found", <<>>)>>
    ELSE <<Line("{} priority violations found on {} accounts:",
                <<ReportedCount(sigs, violated), Cardinality(DOMAIN violated)>>)>>
         \o AccountBlocks(order, violated)
         \o <<Line("Violating transactions:", <<>>)>>
         \o [i \in 1..Len(sigs) |-> Line("{}", <<sigs[i]>>)]

\* main after the loop: the count alone, or the report; main returns.
Report ==
    /\ pc = "report"
    /\ \E order \in IterationOrders(DOMAIN violated_accounts) :
         stdout' = stdout \o ReportLines(display_count_only,
                                         violating_transaction_signatures,
                                         violated_accounts, order)
    /\ exit_code' = Some(0)
    /\ pc' = "exited"
    /\ UNCHANGED <<display_count_only, fnVars, consumed, passVars, txVars, stderr, anomaly, histVars>>

Next ==
    \/ Start
    \/ NextTransaction
    \/ EndOfBlock
    \/ WriteTouch
    \/ ReadTouch
    \/ EndTransaction
    \/ Report

Spec == Init /\ [][Next]_vars

\* ------------------------------------------------- get_priority on its own
\* The instructions of the lists get_priority is applied to: another program's
\* instruction, the two recognized directives, compute-budget instructions of
\* other variants, one of no variant, and the recognized directives with a
\* payload cut short.
PriorityInstructions ==
    {Ix(OtherProgramId, 3, 1, 0, TRUE)}
    \cup {SetComputeUnitPrice(p) : p \in 0..MaxPrice}
    \cup {RequestUnitsDeprecated(u, f) : u \in 0..MaxUnits, f \in 0..MaxFee}
    \cup {Ix(ComputeBudgetId, 1, 1, 0, TRUE), Ix(ComputeBudgetId, 2, 1, 0, TRUE),
          Ix(ComputeBudgetId, 9, 1, 0, TRUE),
          Ix(ComputeBudgetId, 3, 1, 0, FALSE), Ix(ComputeBudgetId, 0, 1, 1, FALSE)}

InitPriority ==
    /\ pc = "resolve"
    /\ instructions \in SeqsUpTo(PriorityInstructions, MaxIx)
    /\ resolved = None
    /\ display_count_only = FALSE
    /\ consumed = 0
    /\ last_access_map = EmptyMap
    /\ violated_accounts = EmptyMap
    /\ violating_transaction_signatures = <<>>
    /\ is_violation = FALSE
    /\ signature = 0
    /\ priority = 0
    /\ writable = <<>>
    /\ readonly = <<>>
    /\ stdout = <<>>
    /\ stderr = <<>>
    /\ exit_code = None
    /\ anomaly = "none"
    /\ last_touch = [a \in Pubkeys |-> None]
    /\ nonincreasing = Pubkeys
    /\ violators = {}
    /\ touched = None
    /\ tx_written = {}
    /\ tx_touched = {}
    /\ tx_start = EmptyMap
    /\ reference = [a \in Pubkeys |-> <<>>]

\* get_priority applied to the list.
Resolve ==
    /\ pc = "resolve"
    /\ resolved' = Some(get_priority(instructions))
    /\ pc' = "resolved"
    /\ UNCHANGED <<instructions, display_count_only, consumed, passVars, txVars, outVars,
                   anomaly, histVars>>

NextPriority == Resolve

SpecPriority == InitPriority /\ [][NextPriority]_vars

TypeOK ==
    /\ pc \in {"start", "next_tx", "write", "read", "end_tx", "report", "exited",
               "resolve", "resolved"}
    /\ consumed \in 0..MaxTxs
    /\ DOMAIN last_access_map \subseteq Pubkeys
    /\ DOMAIN violated_accounts \subseteq DOMAIN last_access_map
    /\ exit_code \in {None, Some(0), Some(1)}

\* ------------------------------------------------------------------- claims
\* The latest touch of the transaction in the loop body, when there is one.
T == unwrap(touched)
Met == unwrap(T.before)
RecordedByTouch ==
    EntryCount(violated_accounts, T.account) = T.entries_before + 1
NothingRecordedByTouch ==
    EntryCount(violated_accounts, T.account) = T.entries_before

\* C1: a write touch that meets a record of strictly lower priority records a
\* violation on the account, whether that record was left by a read or by a
\* write.
C1_WriteAboveRecordViolates ==
    (touched # None /\ T.kind = "Write" /\ T.before # None /\ Met.priority < T.priority)
        => RecordedByTouch

\* C1 witness: a write has met the record of a lower-priority read and a
\* violation entry was added for it.
C1_Witness ==
    /\ touched # None
    /\ T.kind = "Write"
    /\ T.before # None
    /\ Met.last_access = "Read"
    /\ Met.priority < T.priority
    /\ RecordedByTouch

\* C2: a read touch that meets the record of a write of strictly lower priority
\* records a violation on the account; a read touch that meets the record of a
\* read records none, whatever the two priorities are.
C2_ReadRule ==
    /\ (touched # None /\ T.kind = "Read" /\ T.before # None
          /\ Met.last_access = "Write" /\ Met.priority < T.priority)
         => RecordedByTouch
    /\ (touched # None /\ T.kind = "Read" /\ T.before # None /\ Met.last_access = "Read")
         => NothingRecordedByTouch

\* C2 witness: a read has met the record of a read of lower priority, after a
\* transaction that violated, and has added nothing.
C2_Witness ==
    /\ touched # None
    /\ T.kind = "Read"
    /\ T.before # None
    /\ Met.last_access = "Read"
    /\ Met.priority < T.priority
    /\ violating_transaction_signatures # <<>>
    /\ NothingRecordedByTouch

\* C3: the first touch of an account, read or write, records no violation and
\* creates the record of its kind and priority.
C3_FirstTouch ==
    (touched # None /\ T.before = None)
        => /\ T.entries_before = 0
           /\ ~contains_key(violated_accounts, T.account)
           /\ contains_key(last_access_map, T.account)
           /\ last_access_map[T.account] = LastAccessPriority(T.kind, T.priority)

\* C3 witness: a read of nonzero priority was the first touch of its account,
\* in a transaction after one that violated.
C3_Witness ==
    /\ touched # None
    /\ T.before = None
    /\ T.kind = "Read"
    /\ T.priority > 0
    /\ violating_transaction_signatures # <<>>

\* C4: an account whose touches never rose in priority has no violation entry.
C4_NonIncreasingNeverViolates ==
    \A a \in nonincreasing : ~contains_key(violated_accounts, a)

\* C4 witness: a transaction is done whose last touch, a write, came with a
\* strictly lower priority than the read before it on an account whose touches
\* never rose, while the other account has a violation entry.
C4_Witness ==
    /\ pc = "end_tx"
    /\ touched # None
    /\ T.before # None
    /\ Met.priority > T.priority
    /\ Met.last_access = "Read"
    /\ T.kind = "Write"
    /\ T.account \in nonincreasing
    /\ DOMAIN violated_accounts # {}

\* C5: after a touch the account's record is the kind of the touch and the
\* priority of the touching transaction, violation or not; every account's
\* record is that of its most recent touch.
C5_RecordIsLatestTouch ==
    /\ touched # None =>
         /\ contains_key(last_access_map, T.account)
         /\ last_access_map[T.account] = LastAccessPriority(T.kind, T.priority)
    /\ \A a \in Pubkeys :
         IF last_touch[a] = None
           THEN ~contains_key(last_access_map, a)
           ELSE /\ contains_key(last_access_map, a)
                /\ last_access_map[a] = unwrap(last_touch[a])

\* C5 witness: a read that recorded a violation has replaced the record of the
\* write it met.
C5_Witness ==
    /\ touched # None
    /\ T.kind = "Read"
    /\ T.before # None
    /\ Met.last_access = "Write"
    /\ RecordedByTouch
    /\ last_access_map[T.account] # Met

\* C6 as stated: within a transaction no write touch follows a read touch, and
\* a read of an account the transaction has written meets the record
\* {Write, p} of that write and records no violation.
C6_ReadMeetsOwnWrite ==
    /\ (pc = "write" /\ touched # None) => T.kind = "Write"
    /\ (touched # None /\ T.kind = "Read" /\ T.account \in tx_written)
         => /\ T.before = Some(LastAccessPriority("Write", priority))
            /\ NothingRecordedByTouch

\* C6 amended: within a transaction no write touch follows a read touch, and a
\* read of an account the transaction has written meets a record left by the
\* transaction itself, of its own priority ({Write, p} of its write or {Read, p}
\* of its previous read of the account), and records no violation.
C6_ReadMeetsOwnTouch ==
    /\ (pc = "write" /\ touched # None) => T.kind = "Write"
    /\ (touched # None /\ T.kind = "Read" /\ T.account \in tx_written)
         => /\ T.before \in {Some(LastAccessPriority("Write", priority)),
                              Some(LastAccessPriority("Read", priority))}
            /\ NothingRecordedByTouch

\* C6 witness: a transaction has read an account after its own write of it
\* recorded a violation against a lower record from before the transaction.
C6_Witness ==
    /\ touched # None
    /\ T.kind = "Read"
    /\ T.account \in tx_written
    /\ Met.last_access = "Write"
    /\ contains_key(violated_accounts, T.account)
    /\ violated_accounts[T.account][Len(violated_accounts[T.account])][2] = priority
    /\ violators = {signature}
    /\ NothingRecordedByTouch

\* The count on the first line of the output, when the output has one.
CountReported ==
    /\ stdout # <<>>
    /\ stdout[1].text \in {"{}", "{} priority violations found on {} accounts:"}
ReportedNumber == stdout[1].args[1]

\* C7 as stated: the reported count is the sum of the lengths of the violation
\* lists, and that sum is the number of transactions that violated.
C7_CountIsEntriesAndTransactions ==
    CountReported =>
        /\ ReportedNumber = TotalEntries(violated_accounts)
        /\ TotalEntries(violated_accounts) = Cardinality(violators)

\* C7 amended: the reported count is the number of transactions that violated,
\* which is at most the sum of the lengths of the violation lists.
C7_CountIsTransactions ==
    CountReported =>
        /\ ReportedNumber = Cardinality(violators)
        /\ ReportedNumber <= TotalEntries(violated_accounts)

\* C7 witness: a count was reported for a block in which a transaction violated
\* on two accounts.
C7_Witness ==
    /\ CountReported
    /\ ReportedNumber = 1
    /\ DOMAIN violated_accounts = Pubkeys
    /\ TotalEntries(violated_accounts) = 2

\* The signatures collected, as a set.
Collected ==
    {violating_transaction_signatures[i] : i \in 1..Len(violating_transaction_signatures)}

\* C8: between transactions the collected signatures are those of the
\* transactions with a touch that recorded a violation, each once; inside a
\* transaction they are those of the earlier such transactions.
C8_SignatureIffViolation ==
    /\ Len(violating_transaction_signatures) = Cardinality(Collected)
    /\ (pc \in {"next_tx", "report"} \/ exit_code = Some(0)) => Collected = violators
    /\ pc \in {"write", "read", "end_tx"} => Collected = violators \ {signature}

\* C8 witness: at the end of a block of three transactions, the one that
\* recorded two violation entries is collected once and the two that recorded
\* none are not.
C8_Witness ==
    /\ pc = "report"
    /\ consumed = 3
    /\ Len(violating_transaction_signatures) = 1
    /\ TotalEntries(violated_accounts) = 2

\* C9 as stated: in every violation entry the old priority is greater than the
\* new one.
C9_OldAboveNew ==
    \A a \in DOMAIN violated_accounts :
        \A i \in 1..Len(violated_accounts[a]) :
            violated_accounts[a][i][1] > violated_accounts[a][i][2]

\* C9 amended: in every violation entry [oldPriority, newPriority] the old
\* priority is less than the new one.
C9_OldBelowNew ==
    \A a \in DOMAIN violated_accounts :
        \A i \in 1..Len(violated_accounts[a]) :
            violated_accounts[a][i][1] < violated_accounts[a][i][2]

\* C9 witness: violation entries were recorded by a write and by a read.
C9_Witness ==
    /\ DOMAIN violated_accounts = Pubkeys
    /\ touched # None
    /\ T.kind = "Read"
    /\ RecordedByTouch
    /\ tx_written # {}

\* C10: an input with an anomaly ends the run with exit code 1 at the step that
\* meets it, nothing is printed to the output by a run that exits with 1, and a
\* run that ends without anomaly ends with exit code 0.
C10_AnomalyIsFatal ==
    /\ anomaly # "none" => (pc = "exited" /\ exit_code = Some(1))
    /\ exit_code = Some(1) => stdout = <<>>
    /\ (pc = "exited" /\ anomaly = "none") => exit_code = Some(0)

\* C10 witness: a transaction that does not sanitize ended the run after
\* earlier transactions recorded violations.
C10_Witness ==
    /\ anomaly = "sanitize"
    /\ exit_code = Some(1)
    /\ violating_transaction_signatures # <<>>
    /\ DOMAIN violated_accounts # {}

\* C15: with -c a run that ends normally has printed exactly one line, the
\* number of transactions that violated, and nothing else: no header, no
\* account block, no signature and no "No priority violations found" line,
\* also when no transaction violated.
C15_CountOnlyOutput ==
    (display_count_only /\ exit_code = Some(0))
        => stdout = <<Line("{}", <<Cardinality(violators)>>)>>

\* C15 witness: a block of transactions that touched accounts and never
\* violated was reported with -c.
C15_Witness ==
    /\ display_count_only
    /\ exit_code = Some(0)
    /\ consumed > 0
    /\ last_access_map # EmptyMap
    /\ violators = {}
    /\ stdout = <<Line("{}", <<0>>)>>

\* The violation list of an account, empty when the map has none for it.
ListOf(violated, account) ==
    IF account \in DOMAIN violated THEN violated[account] ELSE <<>>
IsPrefix(s, t) == Len(s) <= Len(t) /\ SubSeq(t, 1, Len(s)) = s

\* The latest touch is a violating one: it met a record of lower priority, and
\* it is a write or the record is a write's.
ViolatingTouch ==
    /\ T.before # None
    /\ Met.priority < T.priority
    /\ (T.kind = "Write" \/ Met.last_access = "Write")

C17_OtherAccountsUntouched ==
    touched # None =>
        \A a \in Pubkeys \ {T.account} :
            /\ contains_key(last_access_map, a) = contains_key(T.map_before, a)
            /\ contains_key(last_access_map, a) => last_access_map[a] = T.map_before[a]
            /\ contains_key(violated_accounts, a) = contains_key(T.violated_before, a)
            /\ contains_key(violated_accounts, a)
                 => violated_accounts[a] = T.violated_before[a]

\* C17 witness: a touch changed the record of its account and added an entry
\* for it while another account had a record and a violation list.
C17_Witness ==
    /\ touched # None
    /\ ViolatingTouch
    /\ last_access_map[T.account] # Met
    /\ ListOf(violated_accounts, T.account) # ListOf(T.violated_before, T.account)
    /\ \E a \in Pubkeys \ {T.account} :
         /\ contains_key(last_access_map, a)
         /\ contains_key(violated_accounts, a)

\* C18: while a transaction is processed every account has at most one
\* violation entry more than when the transaction began; a touch of an account
\* the transaction has touched before meets a record of the transaction's own
\* priority and adds nothing.
C18_OneEntryPerTransaction ==
    /\ pc \in {"write", "read", "end_tx"} =>
         \A a \in Pubkeys :
             EntryCount(violated_accounts, a) <= EntryCount(tx_start, a) + 1
    /\ (touched # None /\ T.again) =>
         /\ T.before # None
         /\ Met.priority = T.priority
         /\ violated_accounts = T.violated_before

\* C18 witness: a transaction whose write of an account added an entry has
\* read the same account twice afterwards.
C18_Witness ==
    /\ touched # None
    /\ T.again
    /\ T.kind = "Read"
    /\ Met.last_access = "Read"
    /\ T.account \in tx_written
    /\ EntryCount(violated_accounts, T.account) = EntryCount(tx_start, T.account) + 1

\* C19: the violation list of every account is the list built from the
\* consecutive touches of that account alone, with an entry [p1, p2] for the
\* touches (k1, p1), (k2, p2) exactly when p1 < p2 and one of k1, k2 is a write
\* (k2 a write, or k1 a write); an account without such a pair has no list.
C19_ListIsReference ==
    \A a \in Pubkeys :
        /\ ListOf(violated_accounts, a) = reference[a]
        /\ contains_key(violated_accounts, a) <=> reference[a] # <<>>

\* C19 witness: a read has met the record of a read of lower priority and
\* added nothing, while the other account got its entry from a pair with a
\* write.
C19_Witness ==
    /\ touched # None
    /\ T.kind = "Read"
    /\ T.before # None
    /\ Met.last_access = "Read"
    /\ Met.priority < T.priority
    /\ reference[T.account] = <<>>
    /\ ~contains_key(violated_accounts, T.account)
    /\ \E a \in Pubkeys \ {T.account} :
         /\ reference[a] # <<>>
         /\ violated_accounts[a] = reference[a]

\* A transaction's processing has ended: main is at the head of the loop, or
\* past the loop.
BetweenTransactions == pc \in {"next_tx", "report"} \/ exit_code = Some(0)
NoViolationsLine == Line("No priority violations found", <<>>)

\* C20: between transactions violated_accounts is empty exactly when
\* violating_transaction_signatures is, no account in it has an empty list, and
\* the signatures are at most as many as the entries; a full report is the one
\* line "No priority violations found" exactly when no transaction violated,
\* and has that line nowhere otherwise.
C20_MapAndSignaturesAgree ==
    /\ BetweenTransactions =>
         /\ (DOMAIN violated_accounts = {}) <=> (violating_transaction_signatures = <<>>)
         /\ \A a \in DOMAIN violated_accounts : violated_accounts[a] # <<>>
         /\ Len(violating_transaction_signatures) <= TotalEntries(violated_accounts)
    /\ (exit_code = Some(0) /\ ~display_count_only) =>
         /\ (stdout = <<NoViolationsLine>>) <=> (violators = {})
         /\ (\E i \in 1..Len(stdout) : stdout[i] = NoViolationsLine) <=> (violators = {})

\* C20 witness: a full report of "No priority violations found" for a block in
\* which an account was touched with rising priority without a violation.
C20_Witness ==
    /\ exit_code = Some(0)
    /\ ~display_count_only
    /\ stdout = <<NoViolationsLine>>
    /\ nonincreasing # Pubkeys
    /\ violating_transaction_signatures = <<>>

\* ---------------------------------------------------- claims on get_priority
\* The result of get_priority on the list, once it has run.
Result == unwrap(resolved)

\* The place of the first recognized directive of the list, 0 when it has none.
FirstRecognized ==
    IF \E i \in 1..Len(instructions) : Recognized(instructions[i])
      THEN CHOOSE i \in 1..Len(instructions) :
               /\ Recognized(instructions[i])
               /\ \A j \in 1..(i - 1) : ~Recognized(instructions[j])
      ELSE 0
First == instructions[FirstRecognized].data

\* The compute-budget instructions of the list.
ComputeBudgetPlaces ==
    {i \in 1..Len(instructions) : instructions[i].program_id = ComputeBudgetId}

\* C11: get_priority returns the priority of the first recognized directive in
\* instruction order, the price of a price directive or the quotient of a
\* deprecated one, whatever follows it; 0 when the list has no recognized
\* directive; and V when its only compute-budget instruction is a price
\* directive of V.
C11_FirstDirectiveDecides ==
    resolved # None =>
        /\ FirstRecognized = 0 => Result = Ok(0)
        /\ (FirstRecognized # 0 /\ First.disc = 3) => Result = Ok(First.a)
        /\ (FirstRecognized # 0 /\ First.disc = 0 /\ First.a > 0)
             => Result = Ok((First.b * MICRO_LAMPORTS_PER_LAMPORT) \div First.a)
        /\ \A i \in 1..Len(instructions) :
             (ComputeBudgetPlaces = {i} /\ Recognized(instructions[i])
                /\ instructions[i].data.disc = 3)
               => Result = Ok(instructions[i].data.a)

\* C11 witness: a price directive was followed by a deprecated directive of
\* another priority and the price was returned.
C11_Witness ==
    /\ resolved # None
    /\ Len(instructions) = 2
    /\ Recognized(instructions[1])
    /\ instructions[1].data.disc = 3
    /\ Recognized(instructions[2])
    /\ instructions[2].data.disc = 0
    /\ instructions[2].data.a > 0
    /\ instructions[2].data.b > 0
    /\ Result = Ok(instructions[1].data.a)

\* A compute-budget instruction of a recognized discriminant whose payload is
\* cut short.
Malformed(ix) ==
    /\ ix.program_id = ComputeBudgetId
    /\ ix.data.disc \in {0, 3}
    /\ ~ix.data.complete

\* A well-formed compute-budget instruction of another discriminant.
Unrecognized(ix) ==
    /\ ix.program_id = ComputeBudgetId
    /\ ix.data.disc \notin {0, 3}
    /\ ix.data.complete

\* C12: a compute-budget instruction of a recognized discriminant with a
\* malformed payload, met before any recognized directive, makes get_priority
\* fail fatally; a well-formed compute-budget instruction of an unrecognized
\* discriminant is skipped and the scan goes on with the next instruction.
C12_MalformedIsFatal ==
    resolved # None =>
        /\ (\E i \in 1..Len(instructions) :
               /\ Malformed(instructions[i])
               /\ \A j \in 1..(i - 1) : ~Recognized(instructions[j]))
             => ~Result.ok
        /\ (instructions # <<>> /\ Unrecognized(Head(instructions)))
             => Result = get_priority(Tail(instructions))

\* The deprecated directive that decides, when one does.
DeprecatedDecides == FirstRecognized # 0 /\ First.disc = 0
Units == First.a
Product == First.b * MICRO_LAMPORTS_PER_LAMPORT

====
